---- MODULE Spec2Model ----
(***************************************************************************)
(* Model of cirq/study/sweepable.py: the conversions to_resolvers,         *)
(* to_sweeps, to_sweep and the helper _resolver_to_sweep.                  *)
(*                                                                         *)
(* Python values are records tagged by their runtime class in "kind".      *)
(* to_resolvers is a generator: it is modelled as the stack of suspended   *)
(* generator frames that `yield from` builds, advanced by one next() call  *)
(* at a time.  The other three functions return (or raise) in one step.    *)
(***************************************************************************)
EXTENDS Integers, Sequences, FiniteSets, TLC

\* ---------------------------------------------------------------- bounds
\* Largest number of nodes (leaves plus collections) of an input value.
MaxNodes == 4
\* Number of distinct parameter keys a ParamResolver may bind.
MaxKeys == 3
\* Parameter values are 1..MaxVal.
MaxVal == 2

\* ---------------------------------------------------------------- values
None == [kind |-> "None"]

Item(k, v) == [key |-> k, value |-> v]

\* A ParamResolver; param_dict is the dict's items in insertion order.
ParamResolver(d) == [kind |-> "ParamResolver", param_dict |-> d]

\* A raw mapping (dict), accepted by to_sweep as ParamResolverOrSimilarType.
Dict(d) == [kind |-> "dict", param_dict |-> d]

UnitSweep == [kind |-> "UnitSweep"]

Points(k, vs) == [kind |-> "Points", key |-> k, points |-> vs]

Zip(ss) == [kind |-> "Zip", sweeps |-> ss]

ListSweep(rs) == [kind |-> "ListSweep", resolver_list |-> rs]

\* A plain Python list (the generic Iterable).
List(xs) == [kind |-> "list", items |-> xs]

\* An object that is none of None / ParamResolver / Sweep / Iterable.
Other(n) == [kind |-> "int", value |-> n]

\* The exception raised at lines 40, 57 and 82, carrying the offending value.
TypeError(x) == [kind |-> "TypeError", value |-> x]

\* A value returned normally.
Return(v) == [kind |-> "return", value |-> v]

SweepKinds == {"UnitSweep", "Points", "Zip", "ListSweep"}

\* isinstance(x, ParamResolver)
IsParamResolver(x) == x.kind = "ParamResolver"

\* isinstance(x, Sweep)
IsSweep(x) == x.kind \in SweepKinds

\* isinstance(x, dict)
IsDict(x) == x.kind = "dict"

\* isinstance(x, Iterable): lists and dicts are, and so is every Sweep
\* (Sweep defines __iter__); None, ParamResolver and int are not.
IsIterable(x) == x.kind \in ({"list", "dict"} \cup SweepKinds)

\* ---------------------------------------------------------------- helpers
Min(a, b) == IF a < b THEN a ELSE b

RECURSIVE Concat(_)
\* The concatenation of a sequence of sequences.
Concat(ss) == IF ss = <<>> THEN <<>> ELSE Head(ss) \o Concat(Tail(ss))

\* A dict as a mathematical mapping: its set of key/value items.
AsMap(d) == {d[i] : i \in DOMAIN d}

\* ParamResolver equality is equality of the param_dicts, and Python dict
\* equality ignores insertion order.
SameBinding(b1, b2) == AsMap(b1.param_dict) = AsMap(b2.param_dict)

\* Element-wise SameBinding of two sequences of ParamResolvers.
SameBindings(s1, s2) ==
    /\ Len(s1) = Len(s2)
    /\ \A i \in DOMAIN s1 : SameBinding(s1[i], s2[i])

\* ---------------------------------------------------------------- sweeps
RECURSIVE Iterate(_)
RECURSIVE ZipRows(_, _, _)
\* Row i of a Zip: the items of the i-th binding of every sub-sweep, merged
\* in sub-sweep order.
ZipRows(ss, i, j) ==
    IF j > Len(ss) THEN <<>>
    ELSE Iterate(ss[j])[i].param_dict \o ZipRows(ss, i, j + 1)

RECURSIVE ZipLen(_, _)
\* The length of a Zip: the shortest sub-sweep from the j-th on.
ZipLen(ss, j) ==
    IF j = Len(ss) THEN Len(Iterate(ss[j]))
    ELSE Min(Len(Iterate(ss[j])), ZipLen(ss, j + 1))

\* list(iter(x)): the elements an iterable produces, in order.  A Sweep
\* produces ParamResolvers; a list its items; a dict its keys.
Iterate(x) ==
    CASE x.kind = "UnitSweep" -> <<ParamResolver(<<>>)>>
      [] x.kind = "Points" ->
            [i \in DOMAIN x.points |-> ParamResolver(<<Item(x.key, x.points[i])>>)]
      [] x.kind = "Zip" ->
            IF x.sweeps = <<>> THEN <<>>
            ELSE [i \in 1..ZipLen(x.sweeps, 1) |->
                    ParamResolver(ZipRows(x.sweeps, i, 1))]
      [] x.kind = "ListSweep" ->
            [i \in DOMAIN x.resolver_list |->
                ParamResolver(x.resolver_list[i].param_dict)]
      [] x.kind = "list" -> x.items
      [] x.kind = "dict" -> [i \in DOMAIN x.param_dict |-> x.param_dict[i].key]

\* ---------------------------------------------------------------- _resolver_to_sweep
\* The mutation: the empty-dict test of lines 87-88 is missing.
resolver_to_sweep_NoUnit(resolver) ==
    Zip([i \in DOMAIN resolver.param_dict |->
            Points(resolver.param_dict[i].key, <<resolver.param_dict[i].value>>)])

\* The mutation: the first key of the dict is left out.
resolver_to_sweep_DropFirst(resolver) ==
    LET params == resolver.param_dict IN
    IF params = <<>> THEN UnitSweep
    ELSE Zip([i \in 1..(Len(params) - 1) |->
                Points(params[i + 1].key, <<params[i + 1].value>>)])

\* _resolver_to_sweep, lines 85-90.
resolver_to_sweep(resolver) ==
    LET params == resolver.param_dict IN
    IF params = <<>> THEN UnitSweep
    ELSE Zip([i \in DOMAIN params |-> Points(params[i].key, <<params[i].value>>)])

\* ---------------------------------------------------------------- to_sweeps
\* The mutation: an empty collection is rejected.
to_sweeps_Strict(sweepable) ==
    IF sweepable = None THEN Return(<<UnitSweep>>)
    ELSE IF IsParamResolver(sweepable) THEN Return(<<resolver_to_sweep(sweepable)>>)
    ELSE IF IsSweep(sweepable) THEN Return(<<sweepable>>)
    ELSE IF IsIterable(sweepable) THEN
        LET items == Iterate(sweepable) IN
        IF items = <<>> THEN TypeError(sweepable)
        ELSE IF \A i \in DOMAIN items : IsSweep(items[i]) THEN Return(items)
        ELSE IF \A i \in DOMAIN items : IsParamResolver(items[i]) THEN
            Return([i \in DOMAIN items |-> resolver_to_sweep(items[i])])
        ELSE TypeError(sweepable)
    ELSE TypeError(sweepable)

\* The mutation: the second test asks for some ParamResolver, not for all.
to_sweeps_Any(sweepable) ==
    IF sweepable = None THEN Return(<<UnitSweep>>)
    ELSE IF IsParamResolver(sweepable) THEN Return(<<resolver_to_sweep(sweepable)>>)
    ELSE IF IsSweep(sweepable) THEN Return(<<sweepable>>)
    ELSE IF IsIterable(sweepable) THEN
        LET items == Iterate(sweepable) IN
        IF \A i \in DOMAIN items : IsSweep(items[i]) THEN Return(items)
        ELSE IF \E i \in DOMAIN items : IsParamResolver(items[i]) THEN
            Return([i \in DOMAIN items |->
                      IF IsParamResolver(items[i]) THEN resolver_to_sweep(items[i])
                      ELSE items[i]])
        ELSE TypeError(sweepable)
    ELSE TypeError(sweepable)

\* The mutation: the Iterable test comes before the Sweep test.
to_sweeps_IterableFirst(sweepable) ==
    IF sweepable = None THEN Return(<<UnitSweep>>)
    ELSE IF IsParamResolver(sweepable) THEN Return(<<resolver_to_sweep(sweepable)>>)
    ELSE IF IsIterable(sweepable) THEN
        LET items == Iterate(sweepable) IN
        IF \A i \in DOMAIN items : IsSweep(items[i]) THEN Return(items)
        ELSE IF \A i \in DOMAIN items : IsParamResolver(items[i]) THEN
            Return([i \in DOMAIN items |-> resolver_to_sweep(items[i])])
        ELSE TypeError(sweepable)
    ELSE IF IsSweep(sweepable) THEN Return(<<sweepable>>)
    ELSE TypeError(sweepable)

\* The mutation: None gives no sweep at all.
to_sweeps_NoneEmpty(sweepable) ==
    IF sweepable = None THEN Return(<<>>)
    ELSE to_sweeps_Strict(sweepable)

\* to_sweeps, lines 43-57.  Python's all() of no elements is True.
to_sweeps(sweepable) ==
    IF sweepable = None THEN Return(<<UnitSweep>>)
    ELSE IF IsParamResolver(sweepable) THEN Return(<<resolver_to_sweep(sweepable)>>)
    ELSE IF IsSweep(sweepable) THEN Return(<<sweepable>>)
    ELSE IF IsIterable(sweepable) THEN
        LET items == Iterate(sweepable) IN
        IF \A i \in DOMAIN items : IsSweep(items[i]) THEN Return(items)
        ELSE IF \A i \in DOMAIN items : IsParamResolver(items[i]) THEN
            Return([i \in DOMAIN items |-> resolver_to_sweep(items[i])])
        ELSE TypeError(sweepable)
    ELSE TypeError(sweepable)

\* ---------------------------------------------------------------- to_sweep
\* The mutation: an element that is a Sweep is expanded into its bindings.
to_sweep_Flatten(sweep_or_resolver_list) ==
    IF IsSweep(sweep_or_resolver_list) THEN Return(sweep_or_resolver_list)
    ELSE IF IsParamResolver(sweep_or_resolver_list) \/ IsDict(sweep_or_resolver_list)
        THEN Return(ListSweep(<<sweep_or_resolver_list>>))
    ELSE IF IsIterable(sweep_or_resolver_list) THEN
        LET items == Iterate(sweep_or_resolver_list) IN
        Return(ListSweep(Concat([i \in DOMAIN items |->
            IF IsSweep(items[i]) THEN Iterate(items[i]) ELSE <<items[i]>>])))
    ELSE TypeError(sweep_or_resolver_list)

\* The mutation: the Iterable test comes before the Sweep test.
to_sweep_IterableFirst(sweep_or_resolver_list) ==
    IF IsParamResolver(sweep_or_resolver_list) \/ IsDict(sweep_or_resolver_list)
        THEN Return(ListSweep(<<sweep_or_resolver_list>>))
    ELSE IF IsIterable(sweep_or_resolver_list)
        THEN Return(ListSweep(Iterate(sweep_or_resolver_list)))
    ELSE TypeError(sweep_or_resolver_list)

\* to_sweep, lines 60-82.
to_sweep(sweep_or_resolver_list) ==
    IF IsSweep(sweep_or_resolver_list) THEN Return(sweep_or_resolver_list)
    ELSE IF IsParamResolver(sweep_or_resolver_list) \/ IsDict(sweep_or_resolver_list)
        THEN Return(ListSweep(<<sweep_or_resolver_list>>))
    ELSE IF IsIterable(sweep_or_resolver_list)
        THEN Return(ListSweep(Iterate(sweep_or_resolver_list)))
    ELSE TypeError(sweep_or_resolver_list)

\* ---------------------------------------------------------------- inputs
KeyNames == <<"a", "b", "c", "d", "e">>

Keys == {KeyNames[i] : i \in 1..MaxKeys}

Items == {Item(k, v) : k \in Keys, v \in 1..MaxVal}

\* Every dict over Keys: item sequences with pairwise distinct keys, in every
\* insertion order.
Dicts ==
    UNION {{d \in [1..n -> Items] :
                \A i, j \in 1..n : d[i].key = d[j].key => i = j} : n \in 0..MaxKeys}

Resolvers == {ParamResolver(d) : d \in Dicts}

SampleSweeps ==
    {UnitSweep,
     Points("a", <<1, 2>>),
     Zip(<<Points("a", <<1>>), Points("b", <<2>>)>>),
     Zip(<<Points("a", <<1, 2>>), Points("b", <<2, 1>>)>>),
     ListSweep(<<ParamResolver(<<Item("b", 2)>>), Dict(<<Item("a", 1)>>)>>)}

\* The leaves nested inputs are built from.  The second ParamResolver binds
\* "b" before "a": insertion order, not sorted order.
Leaves ==
    {None,
     ParamResolver(<<>>),
     ParamResolver(<<Item("b", 2), Item("a", 1)>>),
     Points("a", <<1, 2>>),
     Other(42)}

RECURSIVE TreesOf(_, _)
RECURSIVE Forests(_, _)
\* The values of exactly n nodes: a leaf or the empty list, or a list of
\* values with n - 1 nodes in all.
TreesOf(leaves, n) ==
    IF n = 1 THEN leaves \cup {List(<<>>)}
    ELSE {List(f) : f \in Forests(leaves, n - 1)}

\* The non-empty sequences of values with m nodes in all.
Forests(leaves, m) ==
    UNION {{<<t>> \o f : t \in TreesOf(leaves, k),
                         f \in (IF k = m THEN {<<>>} ELSE Forests(leaves, m - k))} :
           k \in 1..m}

\* Every value of at most n nodes over the given leaves.
Trees(leaves, n) == UNION {TreesOf(leaves, k) : k \in 1..n}

\* The Sweepable arguments of to_resolvers and to_sweeps.
Sweepables ==
    Trees(Leaves, MaxNodes) \cup SampleSweeps \cup Resolvers

\* The arguments of to_sweep: the above, and raw dicts as binding-likes.
SweepLikes ==
    Trees(Leaves \cup {Dict(<<Item("a", 1)>>)}, MaxNodes) \cup SampleSweeps \cup {Dict(d) : d \in Dicts}

\* ---------------------------------------------------------------- state
VARIABLES
    op,         \* the function called: "none" before a call
    arg,        \* its argument
    result,     \* what the call returned or raised
    gen_state,  \* the to_resolvers generator: none/created/suspended/finished/raised
    frames,     \* the stack of suspended to_resolvers frames, innermost last
    yielded,    \* the ParamResolvers the caller has received from the generator
    pulled      \* the paths of the elements drawn from the input's iterators

vars == <<op, arg, result, gen_state, frames, yielded, pulled>>

Unset == [kind |-> "unset"]

\* A generator frame of to_resolvers(x): pos counts the elements its for
\* loop has drawn (or, for a single yield, whether it has been executed);
\* path is where x lies in the argument.
Frame(x, path) == [sweepable |-> x, pos |-> 0, path |-> path]

\* The mutation: the loop iterates over list(sweepable), drawing every
\* element before the first iteration.
ForLoopPulls_Eager(f) ==
    IF f.pos = 0
    THEN [i \in 1..Len(Iterate(f.sweepable)) |-> f.path \o <<i>>]
    ELSE <<>>

\* What one iteration of the for loops of lines 34 and 37 draws from the
\* iterator of f.sweepable: the next element.
ForLoopPulls(f) == <<f.path \o <<f.pos + 1>>>>

\* The mutation: a nested list is not descended into.
SubGenerator_Shallow(sub, path) ==
    IF sub.kind = "list" THEN <<>> ELSE <<Frame(sub, path)>>

\* Line 38: `yield from to_resolvers(sub_sweepable)` creates the generator
\* of the element and delegates to it.
SubGenerator(sub, path) == <<Frame(sub, path)>>

Yield(fs, v, log) == [frames |-> fs, outcome |-> "yield", value |-> v, pulled |-> log]

RECURSIVE Resume(_, _)
\* One next() on the generator of to_resolvers, lines 27-40: run the
\* innermost frame until a yield, the end of the outermost generator
\* (StopIteration) or a raise, which unwinds every frame.
Resume(fs, log) ==
    IF fs = <<>>
    THEN [frames |-> <<>>, outcome |-> "StopIteration", value |-> None, pulled |-> log]
    ELSE
        LET n == Len(fs)
            f == fs[n]
            x == f.sweepable
            below == SubSeq(fs, 1, n - 1)
            advanced == below \o <<[f EXCEPT !.pos = f.pos + 1]>>
        IN
        IF x = None THEN
            IF f.pos = 0 THEN Yield(advanced, ParamResolver(<<>>), log)
            ELSE Resume(below, log)
        ELSE IF IsParamResolver(x) THEN
            IF f.pos = 0 THEN Yield(advanced, x, log)
            ELSE Resume(below, log)
        ELSE IF IsSweep(x) THEN
            IF f.pos < Len(Iterate(x))
            THEN Yield(advanced, Iterate(x)[f.pos + 1], log \o ForLoopPulls(f))
            ELSE Resume(below, log)
        ELSE IF IsIterable(x) THEN
            IF f.pos < Len(Iterate(x))
            THEN Resume(advanced \o SubGenerator(Iterate(x)[f.pos + 1],
                                                 f.path \o <<f.pos + 1>>),
                        log \o ForLoopPulls(f))
            ELSE Resume(below, log)
        ELSE [frames |-> <<>>, outcome |-> "TypeError", value |-> x, pulled |-> log]

\* ---------------------------------------------------------------- actions
Init ==
    /\ op = "none"
    /\ arg = None
    /\ result = Unset
    /\ gen_state = "none"
    /\ frames = <<>>
    /\ yielded = <<>>
    /\ pulled = <<>>

RECURSIVE HasOther(_)
\* Whether some leaf of x is of an unrecognized class.
HasOther(x) ==
    IF x.kind = "list" THEN \E i \in DOMAIN x.items : HasOther(x.items[i])
    ELSE ~(x = None \/ IsParamResolver(x) \/ IsSweep(x))

\* The mutation: the argument is validated when to_resolvers is called.
CallToResolvers_Validating ==
    /\ op = "none"
    /\ \E x \in Sweepables :
        /\ op' = "to_resolvers"
        /\ arg' = x
        /\ gen_state' = IF HasOther(x) THEN "raised" ELSE "created"
        /\ frames' = IF HasOther(x) THEN <<>> ELSE <<Frame(x, <<>>)>>
        /\ result' = IF HasOther(x) THEN TypeError(x) ELSE result
    /\ UNCHANGED <<yielded, pulled>>

\* to_resolvers(x): calling a generator function runs none of its body.
CallToResolvers ==
    /\ op = "none"
    /\ \E x \in Sweepables :
        /\ op' = "to_resolvers"
        /\ arg' = x
        /\ frames' = <<Frame(x, <<>>)>>
    /\ gen_state' = "created"
    /\ UNCHANGED <<result, yielded, pulled>>

\* The caller asks the generator for its next ParamResolver.
NextResolver ==
    /\ gen_state \in {"created", "suspended"}
    /\ LET r == Resume(frames, pulled) IN
        /\ frames' = r.frames
        /\ pulled' = r.pulled
        /\ yielded' = IF r.outcome = "yield" THEN Append(yielded, r.value) ELSE yielded
        /\ gen_state' = CASE r.outcome = "yield" -> "suspended"
                          [] r.outcome = "StopIteration" -> "finished"
                          [] r.outcome = "TypeError" -> "raised"
        /\ result' = IF r.outcome = "TypeError" THEN TypeError(r.value) ELSE result
    /\ UNCHANGED <<op, arg>>

CallToSweeps ==
    /\ op = "none"
    /\ \E x \in Sweepables :
        /\ op' = "to_sweeps"
        /\ arg' = x
        /\ result' = to_sweeps(x)
    /\ UNCHANGED <<gen_state, frames, yielded, pulled>>

CallToSweep ==
    /\ op = "none"
    /\ \E x \in SweepLikes :
        /\ op' = "to_sweep"
        /\ arg' = x
        /\ result' = to_sweep(x)
    /\ UNCHANGED <<gen_state, frames, yielded, pulled>>

CallResolverToSweep ==
    /\ op = "none"
    /\ \E b \in Resolvers :
        /\ op' = "_resolver_to_sweep"
        /\ arg' = b
        /\ result' = Return(resolver_to_sweep(b))
    /\ UNCHANGED <<gen_state, frames, yielded, pulled>>

\* The caller drops the result (or the generator) and is free to call again.
Discard ==
    /\ op # "none"
    /\ op' = "none"
    /\ arg' = None
    /\ result' = Unset
    /\ gen_state' = "none"
    /\ frames' = <<>>
    /\ yielded' = <<>>
    /\ pulled' = <<>>

Next ==
    \/ CallToResolvers
    \/ NextResolver
    \/ CallToSweeps
    \/ CallToSweep
    \/ CallResolverToSweep
    \/ Discard

Spec == Init /\ [][Next]_vars

\* ================================================================ claims
\* Reference definitions the claims are stated with.

RECURSIVE Flatten(_)
\* The depth-first, left-to-right bindings of a nested value: one empty
\* ParamResolver per None, the ParamResolver itself, a Sweep's own bindings;
\* a leaf of any other class contributes none.
Flatten(x) ==
    IF x = None THEN <<ParamResolver(<<>>)>>
    ELSE IF IsParamResolver(x) THEN <<x>>
    ELSE IF IsSweep(x) THEN Iterate(x)
    ELSE IF x.kind = "list" THEN Concat([i \in DOMAIN x.items |-> Flatten(x.items[i])])
    ELSE <<>>

RECURSIVE Origins(_, _)
\* For each binding of Flatten(x), in order, the path of what produces it:
\* the leaf, or the position inside a Sweep leaf.
Origins(x, path) ==
    IF x = None \/ IsParamResolver(x) THEN <<path>>
    ELSE IF IsSweep(x) THEN [i \in DOMAIN Iterate(x) |-> path \o <<i>>]
    ELSE IF x.kind = "list"
        THEN Concat([i \in DOMAIN x.items |-> Origins(x.items[i], path \o <<i>>)])
    ELSE <<>>

RECURSIVE AllPaths(_, _)
\* The paths of everything an iterator inside x can produce: the elements
\* of every list and the bindings of every Sweep.
AllPaths(x, path) ==
    IF IsSweep(x) THEN {path \o <<i>> : i \in DOMAIN Iterate(x)}
    ELSE IF x.kind = "list"
        THEN UNION {{path \o <<i>>} \cup AllPaths(x.items[i], path \o <<i>>) :
                    i \in DOMAIN x.items}
    ELSE {}

RECURSIVE BadPaths(_, _)
\* The paths of the leaves of unrecognized class, in depth-first order.
BadPaths(x, path) ==
    IF x.kind = "list"
        THEN Concat([i \in DOMAIN x.items |-> BadPaths(x.items[i], path \o <<i>>)])
    ELSE IF x = None \/ IsParamResolver(x) \/ IsSweep(x) THEN <<>>
    ELSE <<path>>

RECURSIVE At(_, _)
\* The value at a path of x.
At(x, path) == IF path = <<>> THEN x ELSE At(x.items[Head(path)], Tail(path))

\* p is q or comes before q in depth-first (pre-)order.
PathLE(p, q) ==
    \/ Len(p) <= Len(q) /\ SubSeq(q, 1, Len(p)) = p
    \/ \E i \in 1..Min(Len(p), Len(q)) :
        /\ p[i] < q[i]
        /\ \A j \in 1..(i - 1) : p[j] = q[j]

Range(s) == {s[i] : i \in DOMAIN s}

\* The bindings of Flatten(x) produced strictly before path q.
BindingsBefore(x, q) ==
    LET o == Origins(x, <<>>)
        k == Cardinality({i \in DOMAIN o : PathLE(o[i], q) /\ o[i] # q})
    IN SubSeq(Flatten(x), 1, k)

C2_Flattening ==
    (op = "to_resolvers" /\ ~HasOther(arg))
        => /\ gen_state # "raised"
           /\ gen_state = "finished" => yielded = Flatten(arg)
           /\ gen_state = "suspended" =>
                yielded = SubSeq(Flatten(arg), 1, Len(yielded))

C2_Witness ==
    /\ op = "to_resolvers"
    /\ gen_state = "finished"
    /\ arg = List(<<List(<<ParamResolver(<<Item("b", 2), Item("a", 1)>>)>>),
                    Points("a", <<1, 2>>)>>)
    /\ Len(yielded) = 3

\* ---------------------------------------------------------------- C3
\* C3 (as claimed): whenever a call has raised TypeError, the caller has
\* received nothing from that call.
C3_NoPartialResult == result.kind = "TypeError" => yielded = <<>>

\* C3 (amended): to_sweeps and to_sweep raise without returning anything,
\* the error carrying the argument.  to_resolvers raises only when
\* consumption reaches the offending value: by then the caller has received,
\* in order, exactly the bindings of everything that precedes that value
\* depth-first, and the error carries the offending value.
C3_FailureAfterEarlierBindings ==
    /\ (op = "to_resolvers" /\ HasOther(arg)) =>
        LET bad == Head(BadPaths(arg, <<>>)) IN
        /\ gen_state \in {"created", "suspended"} =>
                (result = Unset /\ Len(yielded) <= Len(BindingsBefore(arg, bad)))
        /\ gen_state # "finished"
        /\ gen_state = "raised" =>
            /\ yielded = BindingsBefore(arg, bad)
            /\ result = TypeError(At(arg, bad))
    /\ (op = "to_sweeps" /\ HasOther(arg)) => result = TypeError(arg)
    /\ (op = "to_sweep" /\ (arg = None \/ arg.kind = "int")) => result = TypeError(arg)

C3_Witness ==
    /\ op = "to_resolvers"
    /\ gen_state = "raised"
    /\ result.kind = "TypeError"
    /\ Len(yielded) >= 2

\* ---------------------------------------------------------------- C4
\* C4: iterating _resolver_to_sweep(b) yields exactly one binding, equal to
\* b; the sweep is UnitSweep for an empty b and otherwise the Zip of one
\* single-value Points per item of b, in b's own order.
C4_RoundTrip ==
    op = "_resolver_to_sweep" =>
        LET s == result.value
            params == arg.param_dict
        IN
        /\ Len(Iterate(s)) = 1
        /\ SameBinding(Iterate(s)[1], arg)
        /\ params = <<>> => s = UnitSweep
        /\ params # <<>> =>
            /\ s.kind = "Zip"
            /\ Len(s.sweeps) = Len(params)
            /\ \A i \in DOMAIN params :
                /\ s.sweeps[i].kind = "Points"
                /\ s.sweeps[i].key = params[i].key
                /\ s.sweeps[i].points = <<params[i].value>>

C4_Witness ==
    /\ op = "_resolver_to_sweep"
    /\ Len(arg.param_dict) >= 2
    /\ result.value.kind = "Zip"
    /\ SameBinding(Iterate(result.value)[1], arg)

\* ---------------------------------------------------------------- C5
\* C5: to_sweeps of a non-empty list returns the list itself when every
\* element is a Sweep, the _resolver_to_sweep of every element when every
\* element is a ParamResolver, and raises TypeError otherwise (mixed
\* elements, or an element that is a nested list, None or anything else).
C5_Homogeneity ==
    (op = "to_sweeps" /\ arg.kind = "list" /\ arg.items # <<>>) =>
        LET items == arg.items IN
        IF \A i \in DOMAIN items : IsSweep(items[i])
        THEN result.kind = "return" /\ result.value = items
        ELSE IF \A i \in DOMAIN items : IsParamResolver(items[i])
        THEN /\ result.kind = "return"
             /\ Len(result.value) = Len(items)
             /\ \A i \in DOMAIN items :
                    /\ result.value[i] = resolver_to_sweep(items[i])
                    /\ SameBindings(Iterate(result.value[i]), <<items[i]>>)
        ELSE result.kind = "TypeError"

C5_Witness ==
    /\ op = "to_sweeps"
    /\ arg = List(<<ParamResolver(<<>>), Points("a", <<1, 2>>)>>)
    /\ result.kind = "TypeError"

\* ---------------------------------------------------------------- C6
\* C6: a single Sweep s is handled as a Sweep, not as a generic iterable:
\* to_sweep(s) is s, to_sweeps(s) is [s], and to_resolvers(s) yields the
\* bindings iterating s yields, in order.
C6_SweepBeforeIterable ==
    IsSweep(arg) =>
        /\ op = "to_sweep" => result = Return(arg)
        /\ op = "to_sweeps" => (result.kind = "return" /\ result.value = <<arg>>)
        /\ op = "to_resolvers" =>
            /\ gen_state # "raised"
            /\ gen_state = "finished" => yielded = Iterate(arg)
            /\ gen_state = "suspended" => yielded = SubSeq(Iterate(arg), 1, Len(yielded))

C6_Witness ==
    /\ op = "to_sweeps"
    /\ arg = Zip(<<Points("a", <<1, 2>>), Points("b", <<2, 1>>)>>)
    /\ result = Return(<<arg>>)

\* ---------------------------------------------------------------- C7
\* C7: whatever to_sweep returns is one Sweep; a ParamResolver or dict v
\* becomes ListSweep([v]); a list becomes the ListSweep of exactly its
\* elements in order, an element that is a Sweep staying one element.
C7_WrapsWithoutFlattening ==
    op = "to_sweep" =>
        /\ result.kind = "return" => IsSweep(result.value)
        /\ (IsParamResolver(arg) \/ IsDict(arg)) => result = Return(ListSweep(<<arg>>))
        /\ arg.kind = "list" =>
            /\ result.kind = "return"
            /\ result.value.kind = "ListSweep"
            /\ result.value.resolver_list = arg.items

C7_Witness ==
    /\ op = "to_sweep"
    /\ arg.kind = "list"
    /\ Len(arg.items) >= 2
    /\ IsSweep(arg.items[1])
    /\ result.value.resolver_list[1] = arg.items[1]

\* ---------------------------------------------------------------- C8
\* C8: calling to_resolvers draws nothing from its argument; after the k-th
\* binding has been delivered, what has been drawn from the argument's
\* iterators is exactly what precedes or is the element producing that
\* binding (depth-first), each drawn once: nothing lying after it.
C8_Lazy ==
    op = "to_resolvers" =>
        /\ gen_state = "created" => (pulled = <<>> /\ yielded = <<>>)
        /\ gen_state = "suspended" =>
            LET o == Origins(arg, <<>>)[Len(yielded)] IN
            /\ Range(pulled) = {p \in AllPaths(arg, <<>>) : PathLE(p, o)}
            /\ Len(pulled) = Cardinality(Range(pulled))
        /\ gen_state = "raised" =>
            \A p \in Range(pulled) : PathLE(p, Head(BadPaths(arg, <<>>)))

C8_Witness ==
    /\ op = "to_resolvers"
    /\ gen_state = "suspended"
    /\ Len(yielded) = 1
    /\ arg.kind = "list"
    /\ Len(arg.items) = 3
    /\ pulled = <<<<1>>>>

\* ---------------------------------------------------------------- C9
\* C9: to_resolvers(None) yields exactly one binding, with an empty
\* mapping, and to_sweeps(None) returns [UnitSweep].
C9_None ==
    (arg = None /\ op # "none") =>
        /\ op = "to_sweeps" => result = Return(<<UnitSweep>>)
        /\ op = "to_resolvers" =>
            /\ gen_state # "raised"
            /\ gen_state = "suspended" => yielded = <<ParamResolver(<<>>)>>
            /\ gen_state = "finished" => yielded = <<ParamResolver(<<>>)>>

C9_Witness ==
    /\ op = "to_resolvers"
    /\ arg = None
    /\ gen_state = "finished"
    /\ Len(yielded) = 1

\* ---------------------------------------------------------------- C10
\* C10: on every argument to_sweeps accepts, the bindings of the sweeps it
\* returns, concatenated in list order, are the bindings to_resolvers
\* yields when consumed to the end.
C10_SweepsAgreeWithResolvers ==
    (op = "to_resolvers" /\ to_sweeps(arg).kind = "return") =>
        LET sweeps == to_sweeps(arg).value
            viaSweeps == Concat([i \in DOMAIN sweeps |-> Iterate(sweeps[i])])
        IN
        /\ gen_state # "raised"
        /\ gen_state = "finished" => SameBindings(viaSweeps, yielded)

C10_Witness ==
    /\ op = "to_resolvers"
    /\ gen_state = "finished"
    /\ arg.kind = "list"
    /\ Len(arg.items) = 2
    /\ \A i \in DOMAIN arg.items :
        IsParamResolver(arg.items[i]) /\ arg.items[i].param_dict # <<>>
    /\ to_sweeps(arg).kind = "return"

====
